---- MODULE Spec2Model ----
(***************************************************************************)
(* Model of the review pipeline of src/main.ts (first variant, lines       *)
(* 1-1013): createComment (LineMapper), createReviewComment (publisher),   *)
(* getPreviousReviews (HistoryLoader), compareWithPreviousReviews          *)
(* (Reconciler + IdentityEngine) and the mode filter / threshold verdict   *)
(* of main (PolicyGate).                                                   *)
(*                                                                         *)
(* Text is a sequence of tokens.  A token is one character ("a", "[",      *)
(* " ", "\n"), a base64 string, or one of the literals the code writes or   *)
(* matches as a whole ("<!--", "review-id:", ",commit:", "-->", a severity *)
(* word, an emoji).  The regular expressions of the source are evaluated   *)
(* on the token sequence.                                                  *)
(***************************************************************************)
EXTENDS Integers, Sequences, FiniteSets, TLC

(***************************************************************************)
(* Bounds of the model.                                                    *)
(***************************************************************************)
MaxLine == 9
MaxChanges == 3
MaxRuns == 2
MaxNew == 2
MaxHist == 2

(***************************************************************************)
(* Tokens.                                                                 *)
(***************************************************************************)
LF == "\n"
SP == " "
Undefined == "undefined"
EmojiCritical == "U+274C"
EmojiWarning == "U+26A0"
EmojiSuggestion == "U+1F4A1"
EmojiCheck == "U+2705"
AdvisoryText == "This issue was previously reported and still needs to be addressed."
OriginalLineText == "Original comment was for line "

Abs(n) == IF n < 0 THEN -n ELSE n

RECURSIVE ToDecimal(_)
\* String(n) for a non-negative integer, one token per digit.
ToDecimal(n) ==
    LET digit == <<"0", "1", "2", "3", "4", "5", "6", "7", "8", "9">>[(n % 10) + 1]
    IN  IF n < 10 THEN <<digit>> ELSE ToDecimal(n \div 10) \o <<digit>>

\* The UTF-8 bytes of a token (Buffer.from(string) encodes as UTF-8).
Utf8(tok) ==
    CASE tok = "a" -> <<97>>
      [] tok = "b" -> <<98>>
      [] tok = "x" -> <<120>>
      [] tok = "r" -> <<114>>
      [] tok = " " -> <<32>>
      [] tok = "\n" -> <<10>>
      [] tok = "[" -> <<91>>
      [] tok = "]" -> <<93>>
      [] tok = ":" -> <<58>>
      [] tok = "(" -> <<40>>
      [] tok = ")" -> <<41>>
      [] tok = "0" -> <<48>>
      [] tok = "1" -> <<49>>
      [] tok = "2" -> <<50>>
      [] tok = "3" -> <<51>>
      [] tok = "4" -> <<52>>
      [] tok = "5" -> <<53>>
      [] tok = "6" -> <<54>>
      [] tok = "7" -> <<55>>
      [] tok = "8" -> <<56>>
      [] tok = "9" -> <<57>>
      [] tok = "Original comment was for line " ->
            <<79, 114, 105, 103, 105, 110, 97, 108, 32, 99, 111, 109, 109,
              101, 110, 116, 32, 119, 97, 115, 32, 102, 111, 114, 32, 108,
              105, 110, 101, 32>>
      [] tok = "U+26A0" ->
            <<226, 154, 160, 239, 184, 143>>
      [] tok = "File extension mismatch: This appears to be " ->
            <<70, 105, 108, 101, 32, 101, 120, 116, 101, 110,
              115, 105, 111, 110, 32, 109, 105, 115, 109, 97,
              116, 99, 104, 58, 32, 84, 104, 105, 115, 32, 97,
              112, 112, 101, 97, 114, 115, 32, 116, 111, 32, 98,
              101, 32>>
      [] tok = "python" ->
            <<112, 121, 116, 104, 111, 110>>
      [] tok = "ruby" ->
            <<114, 117, 98, 121>>
      [] tok = " code but has a '" ->
            <<32, 99, 111, 100, 101, 32, 98, 117, 116, 32, 104,
              97, 115, 32, 97, 32, 39>>
      [] tok = "' extension. Consider renaming to '" ->
            <<39, 32, 101, 120, 116, 101, 110, 115, 105, 111,
              110, 46, 32, 67, 111, 110, 115, 105, 100, 101,
              114, 32, 114, 101, 110, 97, 109, 105, 110, 103,
              32, 116, 111, 32, 39>>
      [] tok = ".py" ->
            <<46, 112, 121>>
      [] tok = ".rb" ->
            <<46, 114, 98>>
      [] tok = "'" ->
            <<39>>
      [] tok = "a.py" ->
            <<97, 46, 112, 121>>
      [] tok = "a:1" ->
            <<97, 58, 49>>
      [] tok = "" ->
            <<>>

RECURSIVE Bytes(_)
Bytes(s) == IF s = <<>> THEN <<>> ELSE Utf8(Head(s)) \o Bytes(Tail(s))

B64Alphabet ==
    <<"A", "B", "C", "D", "E", "F", "G", "H", "I", "J", "K", "L", "M", "N",
      "O", "P", "Q", "R", "S", "T", "U", "V", "W", "X", "Y", "Z", "a", "b",
      "c", "d", "e", "f", "g", "h", "i", "j", "k", "l", "m", "n", "o", "p",
      "q", "r", "s", "t", "u", "v", "w", "x", "y", "z", "0", "1", "2", "3",
      "4", "5", "6", "7", "8", "9", "+", "/">>

B64Digit(n) == B64Alphabet[n + 1]

RECURSIVE Base64(_)
\* Buffer.toString("base64"): three bytes to four digits, "=" padding; the
\* result is one token.
Base64(bytes) ==
    IF bytes = <<>> THEN ""
    ELSE IF Len(bytes) = 1 THEN
        B64Digit(bytes[1] \div 4) \o B64Digit((bytes[1] % 4) * 16) \o "=="
    ELSE IF Len(bytes) = 2 THEN
        B64Digit(bytes[1] \div 4)
            \o B64Digit((bytes[1] % 4) * 16 + bytes[2] \div 16)
            \o B64Digit((bytes[2] % 16) * 4) \o "="
    ELSE
        B64Digit(bytes[1] \div 4)
            \o B64Digit((bytes[1] % 4) * 16 + bytes[2] \div 16)
            \o B64Digit((bytes[2] % 16) * 4 + bytes[3] \div 64)
            \o B64Digit(bytes[3] % 64)
            \o Base64(SubSeq(bytes, 4, Len(bytes)))

(***************************************************************************)
(* String helpers: trim and the global replaces of the source.             *)
(***************************************************************************)
IsSpace(tok) == tok \in {SP, LF}

RECURSIVE TrimStart(_)
TrimStart(s) ==
    IF s # <<>> /\ IsSpace(Head(s)) THEN TrimStart(Tail(s)) ELSE s

RECURSIVE TrimEnd(_)
TrimEnd(s) ==
    IF s # <<>> /\ IsSpace(s[Len(s)]) THEN TrimEnd(SubSeq(s, 1, Len(s) - 1)) ELSE s

\* String.prototype.trim
Trim(s) == TrimEnd(TrimStart(s))

\* Positions k > i where a lazy ".*?" started after i can stop at token
\* close: "." matches every token but a line terminator.
LazyEnds(s, i, close) ==
    {k \in (i + 1)..Len(s) :
        /\ s[k] = close
        /\ \A m \in (i + 1)..(k - 1) : s[m] # LF}

Min(S) == CHOOSE m \in S : \A n \in S : m <= n

RECURSIVE ReplaceDelimited(_, _, _, _)
\* s.slice(i - 1).replace(/open.*?close/g, "")
ReplaceDelimited(s, i, open, close) ==
    IF i > Len(s) THEN <<>>
    ELSE IF s[i] = open /\ LazyEnds(s, i, close) # {}
         THEN ReplaceDelimited(s, Min(LazyEnds(s, i, close)) + 1, open, close)
         ELSE <<s[i]>> \o ReplaceDelimited(s, i + 1, open, close)

\* body.replace(/<!--.*?-->/g, "")
StripComments(s) == ReplaceDelimited(s, 1, "<!--", "-->")

\* body.replace(/\[.*?\]/g, "")
StripBrackets(s) == ReplaceDelimited(s, 1, "[", "]")

(***************************************************************************)
(* createComment (LineMapper).  A chunk is the set of its changes, each    *)
(* [type, ln]: ln is change.ln of an "add" or "del" change and change.ln2  *)
(* of a "normal" change.                                                   *)
(***************************************************************************)
Severities == {"critical", "warning", "suggestion"}

\* the id of a comment that compareWithPreviousReviews has not seen yet
NoId == <<Undefined>>

ReviewComment(body, path, line, severity, id, status, source) ==
    [body |-> body, path |-> path, line |-> line, severity |-> severity,
     id |-> id, status |-> status, source |-> source]

\* chunk.changes.some(...): the line is an add line or a context line
IsLineInDiff(chunk, lineNum) ==
    \E change \in chunk :
        /\ change.type \in {"add", "normal"}
        /\ change.ln = lineNum

RECURSIVE SortLines(_)
\* the add/normal changes mapped to their line and sorted ascending
SortLines(changes) ==
    IF changes = {} THEN <<>>
    ELSE LET first == CHOOSE c \in changes : \A d \in changes : c.ln <= d.ln
         IN  <<first.ln>> \o SortLines(changes \ {first})

ChangedLines(chunk) ==
    SortLines({change \in chunk : change.type \in {"add", "normal"}})

\* the reduce callback with <= for <: of two equidistant lines the later wins
CloserLineTieLarger(prev, curr, lineNum) ==
    IF Abs(curr - lineNum) <= Abs(prev - lineNum) THEN curr ELSE prev

\* the callback of changedLines.reduce
CloserLine(prev, curr, lineNum) ==
    IF Abs(curr - lineNum) < Abs(prev - lineNum) THEN curr ELSE prev

RECURSIVE ReduceClosest(_, _, _)
ReduceClosest(prev, rest, lineNum) ==
    IF rest = <<>> THEN prev
    ELSE ReduceClosest(CloserLine(prev, Head(rest), lineNum), Tail(rest), lineNum)

ClosestLine(changedLines, lineNum) ==
    ReduceClosest(Head(changedLines), Tail(changedLines), lineNum)

\* aiResponse.severity || "warning"
SeverityOrWarning(severity) ==
    IF severity = Undefined THEN "warning" ELSE severity

\* the callback without the note on a remapped comment
CreateOneCommentNoNote(file, chunk, aiResponse) ==
    LET lineNum == aiResponse.lineNumber
        changedLines == ChangedLines(chunk)
    IN  IF file.to = Undefined THEN <<>>
        ELSE IF ~IsLineInDiff(chunk, lineNum) /\ Len(changedLines) = 0 THEN <<>>
        ELSE <<ReviewComment(aiResponse.reviewComment, file.to,
                             IF IsLineInDiff(chunk, lineNum) THEN lineNum
                             ELSE ClosestLine(changedLines, lineNum),
                             SeverityOrWarning(aiResponse.severity),
                             NoId, Undefined, Undefined)>>

\* the flatMap callback of createComment, for one AI finding
CreateOneComment(file, chunk, aiResponse) ==
    LET lineNum == aiResponse.lineNumber
        changedLines == ChangedLines(chunk)
    IN  IF file.to = Undefined THEN <<>>
        ELSE IF ~IsLineInDiff(chunk, lineNum) THEN
            IF Len(changedLines) = 0 THEN <<>>
            ELSE <<ReviewComment(
                     <<"[", OriginalLineText>> \o ToDecimal(lineNum)
                        \o <<"]", LF>> \o aiResponse.reviewComment,
                     file.to, ClosestLine(changedLines, lineNum),
                     SeverityOrWarning(aiResponse.severity),
                     NoId, Undefined, Undefined)>>
        ELSE <<ReviewComment(aiResponse.reviewComment, file.to, lineNum,
                             SeverityOrWarning(aiResponse.severity),
                             NoId, Undefined, Undefined)>>

RECURSIVE createComment(_, _, _)
createComment(file, chunk, aiResponses) ==
    IF aiResponses = <<>> THEN <<>>
    ELSE CreateOneComment(file, chunk, Head(aiResponses))
            \o createComment(file, chunk, Tail(aiResponses))

(***************************************************************************)
(* validateFileExtension.  The content of a file is the number of the      *)
(* patterns of each language that test true on it.                         *)
(***************************************************************************)
\* the keys of indicators, in their order
Languages ==
    <<"python", "javascript", "typescript", "golang", "c", "cpp", "java",
      "rust", "ruby", "swift", "kotlin", "php">>

LanguageSet == {Languages[i] : i \in 1..Len(Languages)}

\* indicators[lang].extensions
Extensions(lang) ==
    CASE lang = "python" -> <<".py", ".pyw">>
      [] lang = "javascript" -> <<".js", ".jsx", ".mjs">>
      [] lang = "typescript" -> <<".ts", ".tsx">>
      [] lang = "golang" -> <<".go">>
      [] lang = "c" -> <<".c", ".h">>
      [] lang = "cpp" -> <<".cpp", ".hpp", ".cc", ".hh", ".cxx", ".hxx">>
      [] lang = "java" -> <<".java">>
      [] lang = "rust" -> <<".rs">>
      [] lang = "ruby" -> <<".rb", ".rake">>
      [] lang = "swift" -> <<".swift">>
      [] lang = "kotlin" -> <<".kt", ".kts">>
      [] lang = "php" -> <<".php">>

\* path.extname(filePath).toLowerCase() for the paths of the model
ExtName(filePath) ==
    CASE filePath = "a.py" -> ".py"
      [] OTHER -> ""

RECURSIVE DetectFrom(_, _, _, _)
\* the loop over Object.entries(indicators): a later language wins only with
\* strictly more matches
DetectFrom(content, i, detectedLanguage, maxMatches) ==
    IF i > Len(Languages)
    THEN [detectedLanguage |-> detectedLanguage, maxMatches |-> maxMatches]
    ELSE IF content[Languages[i]] > maxMatches
         THEN DetectFrom(content, i + 1, Languages[i], content[Languages[i]])
         ELSE DetectFrom(content, i + 1, detectedLanguage, maxMatches)

DetectLanguage(content) == DetectFrom(content, 1, Undefined, 0)

\* the comment for a mismatch as a list of one element, the empty list for null
validateFileExtension(filePath, fileContent) ==
    LET extension == ExtName(filePath)
        detected == DetectLanguage(fileContent)
        validExtensions == Extensions(detected.detectedLanguage)
    IN  IF detected.detectedLanguage = Undefined \/ detected.maxMatches < 2
        THEN <<>>
        ELSE IF \A i \in 1..Len(validExtensions) : validExtensions[i] # extension
        THEN <<ReviewComment(
                 <<EmojiWarning, SP,
                   "File extension mismatch: This appears to be ",
                   detected.detectedLanguage, " code but has a '", extension,
                   "' extension. Consider renaming to '", validExtensions[1],
                   "'">>,
                 filePath, 1, "critical", NoId, Undefined, Undefined)>>
        ELSE <<>>

(***************************************************************************)
(* createReviewComment: the inline comments handed to createReview.        *)
(***************************************************************************)
getSeverityEmoji(severity) ==
    CASE severity = "critical" -> EmojiCritical
      [] severity = "warning" -> EmojiWarning
      [] severity = "suggestion" -> EmojiSuggestion
      [] OTHER -> Undefined

\* severity.toUpperCase()
ToUpperCase(word) ==
    CASE word \in {"critical", "CRITICAL"} -> "CRITICAL"
      [] word \in {"warning", "WARNING"} -> "WARNING"
      [] word \in {"suggestion", "SUGGESTION"} -> "SUGGESTION"
      [] word \in {"info", "INFO"} -> "INFO"
      [] OTHER -> word

\* word.toLowerCase()
ToLowerCase(word) ==
    CASE word \in {"critical", "CRITICAL"} -> "critical"
      [] word \in {"warning", "WARNING"} -> "warning"
      [] word \in {"suggestion", "SUGGESTION"} -> "suggestion"
      [] word \in {"info", "INFO"} -> "info"
      [] OTHER -> word

\* one element of reviewComments: emoji, bracketed severity, body
PublishedComment(comment) ==
    [body |-> <<getSeverityEmoji(comment.severity), SP, "[",
                ToUpperCase(comment.severity), "]", SP>> \o comment.body,
     path |-> comment.path,
     line |-> comment.line]

RECURSIVE ReviewComments(_)
ReviewComments(comments) ==
    IF comments = <<>> THEN <<>>
    ELSE <<PublishedComment(Head(comments))>> \o ReviewComments(Tail(comments))

\* criticalIssues > 0 || warnings > 0 ? "REQUEST_CHANGES" : "COMMENT"
ReviewEvent(comments) ==
    IF \E i \in 1..Len(comments) : comments[i].severity \in {"critical", "warning"}
    THEN "REQUEST_CHANGES" ELSE "COMMENT"

(***************************************************************************)
(* getPreviousReviews (HistoryLoader).  A fetched review comment is        *)
(* [body, path, line, created_at]; line 0 stands for a null line.          *)
(***************************************************************************)
\* start positions of /<!--review-id:(.*?),commit:(.*?)-->/ that lead to a match
MarkerCommas(s, i) ==
    {j \in LazyEnds(s, i + 1, ",commit:") : LazyEnds(s, j, "-->") # {}}

MarkerStarts(s) ==
    {i \in 1..(Len(s) - 1) :
        /\ s[i] = "<!--"
        /\ s[i + 1] = "review-id:"
        /\ MarkerCommas(s, i) # {}}

\* a match of every HTML comment that starts with review-id:, with or without
\* the commit part
MatchMarkerAnyReviewId(s) ==
    IF \E i \in 1..(Len(s) - 1) :
            s[i] = "<!--" /\ s[i + 1] = "review-id:" /\ LazyEnds(s, i + 1, "-->") # {}
    THEN [found |-> TRUE, id |-> <<>>, commitSha |-> <<>>]
    ELSE [found |-> FALSE, id |-> <<>>, commitSha |-> <<>>]

\* comment.body.match(/<!--review-id:(.*?),commit:(.*?)-->/)
MatchMarker(s) ==
    IF MarkerStarts(s) = {} THEN [found |-> FALSE, id |-> <<>>, commitSha |-> <<>>]
    ELSE LET i == Min(MarkerStarts(s))
             j == Min(MarkerCommas(s, i))
             k == Min(LazyEnds(s, j, "-->"))
         IN  [found |-> TRUE,
              id |-> SubSeq(s, i + 2, j - 1),
              commitSha |-> SubSeq(s, j + 1, k - 1)]

SeverityTagStarts(s) ==
    {i \in 1..(Len(s) - 2) :
        /\ s[i] = "["
        /\ ToUpperCase(s[i + 1]) \in {"CRITICAL", "WARNING", "SUGGESTION"}
        /\ s[i + 2] = "]"}

\* body.match(/\[(CRITICAL|WARNING|SUGGESTION)\]/i)?.[1].toLowerCase()
MatchSeverity(s) ==
    IF SeverityTagStarts(s) = {} THEN Undefined
    ELSE ToLowerCase(s[Min(SeverityTagStarts(s)) + 1])

\* comment.line || 1
LineOrOne(line) == IF line = 0 THEN 1 ELSE line

\* the HistoricalReview built by the map callback for a comment with a marker
HistoricalReview(comment) ==
    LET match == MatchMarker(comment.body)
    IN  [id |-> match.id,
         commitSha |-> match.commitSha,
         timestamp |-> comment.created_at,
         comment |-> ReviewComment(Trim(StripComments(comment.body)),
                                   comment.path, LineOrOne(comment.line),
                                   SeverityOrWarning(MatchSeverity(comment.body)),
                                   match.id, "active", Undefined)]

RECURSIVE getPreviousReviews(_)
\* map to a review or null, then filter the nulls out
getPreviousReviews(fetched) ==
    IF fetched = <<>> THEN <<>>
    ELSE (IF MatchMarker(Head(fetched).body).found
          THEN <<HistoricalReview(Head(fetched))>> ELSE <<>>)
            \o getPreviousReviews(Tail(fetched))

(***************************************************************************)
(* compareWithPreviousReviews (IdentityEngine + Reconciler).               *)
(***************************************************************************)
\* an id that also encodes the producer of the comment
CommentIdWithSource(comment) ==
    <<Base64(Bytes(<<comment.path, ":">> \o ToDecimal(comment.line) \o <<":">>
                    \o (IF comment.source = "quality-tool" THEN <<"x">> ELSE <<>>)
                    \o comment.body))>>

\* Buffer.from(`${path}:${line}:${body}`).toString("base64")
CommentId(comment) ==
    <<Base64(Bytes(<<comment.path, ":">> \o ToDecimal(comment.line)
                    \o <<":">> \o comment.body))>>

\* the predicate with a window of less than 3 lines
IsPreviousReviewBelow3(hr, newComment) ==
    /\ hr.comment.path = newComment.path
    /\ Abs(hr.comment.line - newComment.line) < 3
    /\ Trim(StripBrackets(hr.comment.body)) = Trim(StripBrackets(newComment.body))

\* the predicate of historicalReviews.find
IsPreviousReview(hr, newComment) ==
    /\ hr.comment.path = newComment.path
    /\ Abs(hr.comment.line - newComment.line) <= 3
    /\ Trim(StripBrackets(hr.comment.body)) = Trim(StripBrackets(newComment.body))

HasPreviousReview(newComment, historicalReviews) ==
    \E i \in 1..Len(historicalReviews) :
        IsPreviousReview(historicalReviews[i], newComment)

AdvisorySuffix == <<LF, LF, EmojiWarning, SP, AdvisoryText>>

\* the marker with the id and the commit in each other's place
TrackingMarkerShaFirst(commentId, currentCommitSha) ==
    <<"<!--", "review-id:">> \o currentCommitSha \o <<",commit:">>
        \o commentId \o <<"-->">>

\* `<!--review-id:${commentId},commit:${currentCommitSha}-->`
TrackingMarker(commentId, currentCommitSha) ==
    <<"<!--", "review-id:">> \o commentId \o <<",commit:">>
        \o currentCommitSha \o <<"-->">>

\* one iteration of the loop over newComments
ProcessComment(newComment, historicalReviews, currentCommitSha) ==
    LET commentId == CommentId(newComment)
        body == IF HasPreviousReview(newComment, historicalReviews)
                THEN newComment.body \o AdvisorySuffix
                ELSE newComment.body
    IN  [newComment EXCEPT
            !.id = commentId,
            !.body = TrackingMarker(commentId, currentCommitSha) \o <<LF>> \o body]

ProcessedComments(newComments, historicalReviews, currentCommitSha) ==
    [i \in 1..Len(newComments) |->
        ProcessComment(newComments[i], historicalReviews, currentCommitSha)]

ResolvedPrefix == <<EmojiCheck, SP, "RESOLVED:", SP>>

\* the filter predicate with the negation inside: some processed comment
\* has another id
IsResolvedSomeDiffer(hr, processedComments) ==
    \E i \in 1..Len(processedComments) : processedComments[i].id # hr.comment.id

\* the filter predicate of resolvedComments
IsResolved(hr, processedComments) ==
    ~\E i \in 1..Len(processedComments) : processedComments[i].id = hr.comment.id

ResolvedComment(hr) ==
    [hr.comment EXCEPT !.body = ResolvedPrefix \o hr.comment.body,
                       !.status = "resolved"]

ResolvedComments(processedComments, historicalReviews) ==
    LET Gone(hr) == IsResolved(hr, processedComments)
        gone == SelectSeq(historicalReviews, Gone)
    IN  [i \in 1..Len(gone) |-> ResolvedComment(gone[i])]

compareWithPreviousReviews(newComments, historicalReviews, currentCommitSha) ==
    LET processedComments ==
            ProcessedComments(newComments, historicalReviews, currentCommitSha)
    IN  processedComments \o ResolvedComments(processedComments, historicalReviews)

(***************************************************************************)
(* main: mode filter and threshold verdict (PolicyGate).                   *)
(***************************************************************************)
\* hr.comment.id === comment.id for some historical review
HasHistoricalId(comment, historicalReviews) ==
    \E i \in 1..Len(historicalReviews) : historicalReviews[i].comment.id = comment.id

\* the mode filter with mode new decided by the status, like unresolved
FilterCommentsNewByStatus(mode, reconciled, historicalReviews) ==
    LET IsUnresolved(c) == c.status # "resolved"
    IN  IF mode \in {"new", "unresolved"} THEN SelectSeq(reconciled, IsUnresolved)
        ELSE reconciled

FilterComments(mode, reconciled, historicalReviews) ==
    LET IsFirstSeen(c) == ~HasHistoricalId(c, historicalReviews)
        IsUnresolved(c) == c.status # "resolved"
    IN  IF mode = "new" THEN SelectSeq(reconciled, IsFirstSeen)
        ELSE IF mode = "unresolved" THEN SelectSeq(reconciled, IsUnresolved)
        ELSE reconciled

\* the count without the status test: resolved issues count too
CountIssuesWithResolved(reconciled, severity) ==
    Cardinality({i \in 1..Len(reconciled) : reconciled[i].severity = severity})

\* comments.filter(c => c.severity === severity && c.status !== "resolved").length
CountIssues(reconciled, severity) ==
    Cardinality({i \in 1..Len(reconciled) :
                    /\ reconciled[i].severity = severity
                    /\ reconciled[i].status # "resolved"})

FailureMessage(kind, count, threshold) ==
    [kind |-> kind, count |-> count, threshold |-> threshold]

NoMessage == FailureMessage("", 0, 0)

\* the chain with the warning tier tested before the critical tier
VerdictWarningFirst(reconciled, qualityIssuesCount, maxCritical, maxWarning, maxSuggestion, failOnQuality) ==
    LET criticalIssues == CountIssues(reconciled, "critical")
        warnings == CountIssues(reconciled, "warning")
        suggestions == CountIssues(reconciled, "suggestion")
    IN  IF maxWarning >= 0 /\ warnings > maxWarning
        THEN FailureMessage("warning", warnings, maxWarning)
        ELSE IF maxCritical >= 0 /\ criticalIssues > maxCritical
        THEN FailureMessage("critical", criticalIssues, maxCritical)
        ELSE IF maxSuggestion >= 0 /\ suggestions > maxSuggestion
        THEN FailureMessage("suggestion", suggestions, maxSuggestion)
        ELSE IF failOnQuality /\ qualityIssuesCount > 0
        THEN FailureMessage("quality", qualityIssuesCount, 0)
        ELSE NoMessage

\* the if / else-if chain over the thresholds; "" means shouldFail stays false
Verdict(reconciled, qualityIssuesCount, maxCritical, maxWarning, maxSuggestion, failOnQuality) ==
    LET criticalIssues == CountIssues(reconciled, "critical")
        warnings == CountIssues(reconciled, "warning")
        suggestions == CountIssues(reconciled, "suggestion")
    IN  IF maxCritical >= 0 /\ criticalIssues > maxCritical
        THEN FailureMessage("critical", criticalIssues, maxCritical)
        ELSE IF maxWarning >= 0 /\ warnings > maxWarning
        THEN FailureMessage("warning", warnings, maxWarning)
        ELSE IF maxSuggestion >= 0 /\ suggestions > maxSuggestion
        THEN FailureMessage("suggestion", suggestions, maxSuggestion)
        ELSE IF failOnQuality /\ qualityIssuesCount > 0
        THEN FailureMessage("quality", qualityIssuesCount, 0)
        ELSE NoMessage

\* qualityResults.issues.map(issue => ({body: `${message} (${rule})`, ...}))
QualityComment(issue) ==
    ReviewComment(issue.message \o <<SP, "(">> \o issue.rule \o <<")">>,
                  issue.path, issue.line, issue.severity,
                  NoId, Undefined, "quality-tool")

QualityComments(issues) ==
    [i \in 1..Len(issues) |-> QualityComment(issues[i])]

(***************************************************************************)
(* State of one pull request: the review comments published on it, and     *)
(* the locals of the run of main in progress.                              *)
(***************************************************************************)
VARIABLES
    pc,                  \* position of the current run in main
    run,                 \* number of runs started on the pull request
    thread,              \* review comments of the pull request, oldest first
    eventAction,         \* eventData.action
    currentCommitSha,
    historicalReviews,
    parsedDiff,          \* filteredDiff: files [to, chunk]
    fileIdx,             \* index of the file analyzeCode is at
    aiResponse,          \* result of getAIResponse for the current chunk
    qualityIssues,       \* qualityResults.issues
    newComments,         \* the array handed to compareWithPreviousReviews
    comments,            \* the reconciled list
    commentMode,
    filteredComments,
    reviewCount,         \* createReview calls of the current run
    reviewEvent,         \* event of the last review
    thresholds,          \* [critical, warning, suggestion, failOnQuality]
    shouldFail,
    failureMessage,
    actionStatus,        \* "failed" after core.setFailed, "passed" after core.info
    prevNewComments,     \* originalComments of the last run that reached its verdict
    prevComments,        \* reconciled list of the last run that reached its verdict
    originalComments,    \* newComments of this run before the reconciler changed it
    producerLog          \* what each producer of this run returned, in call order

vars ==
    <<pc, run, thread, eventAction, currentCommitSha, historicalReviews,
      parsedDiff, fileIdx, aiResponse, qualityIssues, newComments, comments,
      commentMode, filteredComments, reviewCount, reviewEvent, thresholds,
      shouldFail, failureMessage, actionStatus, prevNewComments, prevComments,
      originalComments, producerLog>>

runLocals ==
    <<historicalReviews, parsedDiff, fileIdx, aiResponse, qualityIssues,
      newComments, comments, commentMode, filteredComments, reviewCount,
      reviewEvent, thresholds, shouldFail, failureMessage, actionStatus,
      originalComments, producerLog>>

NoThresholds ==
    [critical |-> 0, warning |-> 0, suggestion |-> 0, failOnQuality |-> FALSE]

(***************************************************************************)
(* Inputs of a run of the pipeline.                                        *)
(***************************************************************************)
Change(type, ln) == [type |-> type, ln |-> ln]

Finding(lineNumber, reviewComment, severity) ==
    [lineNumber |-> lineNumber, reviewComment |-> reviewComment, severity |-> severity]

QualityIssue(path, line, message, rule, severity) ==
    [path |-> path, line |-> line, message |-> message, rule |-> rule,
     severity |-> severity]

\* head commit of the k-th event on the pull request
CommitOfRun(k) == <<"c">> \o ToDecimal(k)

EventActions == {"opened", "synchronize", "closed"}

\* pattern counts of a file content
NoMatches == [lang \in LanguageSet |-> 0]
PythonContent == [NoMatches EXCEPT !["python"] = 2]

\* the hunk of the pipeline: line 2 added, line 3 deleted, line 5 context
PipelineChunk == {Change("add", 2), Change("del", 3), Change("normal", 5)}

\* one file with one hunk; its content was not fetched, or looks like python
PipelineDiffs ==
    {<<[to |-> "a", chunk |-> PipelineChunk, content |-> content]>> :
        content \in {<<>>, <<PythonContent>>}}

PipelineResponses ==
    {<<>>,
     <<Finding(2, <<"a">>, "info"),
       Finding(1, <<"[", "x", "]", "a">>, Undefined)>>,
     <<Finding(5, <<"b", SP, "(", "r", ")">>, "suggestion")>>}

\* what one quality tool hands to runQualityMetrics: its issues, or no issue
\* from the catch of the tool
ToolResult(tool, issues) == [tool |-> tool, failed |-> FALSE, issues |-> issues]
ToolFailure(tool) == [tool |-> tool, failed |-> TRUE, issues |-> <<>>]

\* one tool is configured; it finds nothing or one issue
PipelineToolResults ==
    {<<ToolResult("pylint", <<>>)>>,
     <<ToolResult("pylint", <<QualityIssue("a", 5, <<"b">>, <<"r">>, "suggestion")>>)>>}

CommentModes == {"all", "new", "unresolved"}

PipelineThresholds ==
    {[critical |-> 0, warning |-> -1, suggestion |-> -1, failOnQuality |-> FALSE],
     [critical |-> 1, warning |-> 0, suggestion |-> 0, failOnQuality |-> FALSE],
     [critical |-> -1, warning |-> -1, suggestion |-> -1, failOnQuality |-> TRUE]}

(***************************************************************************)
(* Init: a pull request without review comments, no run started.           *)
(***************************************************************************)
IdleLocals ==
    /\ historicalReviews = <<>>
    /\ parsedDiff = <<>>
    /\ fileIdx = 0
    /\ aiResponse = <<>>
    /\ qualityIssues = <<>>
    /\ newComments = <<>>
    /\ comments = <<>>
    /\ commentMode = "all"
    /\ filteredComments = <<>>
    /\ reviewCount = 0
    /\ reviewEvent = "none"
    /\ thresholds = NoThresholds
    /\ shouldFail = FALSE
    /\ failureMessage = NoMessage
    /\ actionStatus = "none"
    /\ originalComments = <<>>
    /\ producerLog = <<>>

\* the run has a diff: the diffs of the model hold at least one file
DiffObtained == parsedDiff # <<>>

Init ==
    /\ pc = "done"
    /\ run = 0
    /\ thread = <<>>
    /\ eventAction = "none"
    /\ currentCommitSha = <<>>
    /\ prevNewComments = <<>>
    /\ prevComments = <<>>
    /\ IdleLocals

(***************************************************************************)
(* The steps of main.                                                      *)
(***************************************************************************)
\* a new event starts the action: the payload is read; a pull request is
\* opened before any other event on it
StartRun(action) ==
    /\ pc = "done"
    /\ run < MaxRuns
    /\ action = "opened" => run = 0
    /\ run' = run + 1
    /\ eventAction' = action
    /\ currentCommitSha' = CommitOfRun(run + 1)
    /\ prevNewComments' = IF actionStatus \in {"passed", "failed"} THEN originalComments
                                                    ELSE prevNewComments
    /\ prevComments' = IF actionStatus \in {"passed", "failed"} THEN comments ELSE prevComments
    /\ historicalReviews' = <<>>
    /\ parsedDiff' = <<>>
    /\ fileIdx' = 0
    /\ aiResponse' = <<>>
    /\ qualityIssues' = <<>>
    /\ newComments' = <<>>
    /\ comments' = <<>>
    /\ commentMode' = "all"
    /\ filteredComments' = <<>>
    /\ reviewCount' = 0
    /\ reviewEvent' = "none"
    /\ thresholds' = NoThresholds
    /\ shouldFail' = FALSE
    /\ failureMessage' = NoMessage
    /\ actionStatus' = "none"
    /\ originalComments' = <<>>
    /\ producerLog' = <<>>
    /\ pc' = "getPreviousReviews"
    /\ UNCHANGED thread

\* getPreviousReviews: the comments are listed and parsed
FetchPreviousReviews ==
    /\ pc = "getPreviousReviews"
    /\ historicalReviews' = getPreviousReviews(thread)
    /\ pc' = "getDiff"
    /\ UNCHANGED <<producerLog, run, thread, eventAction, currentCommitSha, parsedDiff,
                   fileIdx, aiResponse, qualityIssues, newComments, comments,
                   commentMode, filteredComments, reviewCount, reviewEvent,
                   thresholds, shouldFail, failureMessage, actionStatus,
                   prevNewComments, prevComments, originalComments>>

FetchPreviousReviewsFailsEndsRun ==
    /\ pc = "getPreviousReviews"
    /\ actionStatus' = "error"
    /\ pc' = "done"
    /\ UNCHANGED <<producerLog, run, thread, eventAction, currentCommitSha,
                   historicalReviews, parsedDiff, fileIdx, aiResponse,
                   qualityIssues, newComments, comments, commentMode,
                   filteredComments, reviewCount, reviewEvent, thresholds,
                   shouldFail, failureMessage, prevNewComments, prevComments,
                   originalComments>>

\* getPreviousReviews: listReviewComments throws, the catch returns []
FetchPreviousReviewsFails ==
    /\ pc = "getPreviousReviews"
    /\ historicalReviews' = <<>>
    /\ pc' = "getDiff"
    /\ UNCHANGED <<producerLog, run, thread, eventAction, currentCommitSha, parsedDiff,
                   fileIdx, aiResponse, qualityIssues, newComments, comments,
                   commentMode, filteredComments, reviewCount, reviewEvent,
                   thresholds, shouldFail, failureMessage, actionStatus,
                   prevNewComments, prevComments, originalComments>>

\* opened / synchronize: the diff is fetched, parsed and filtered
GetDiff(diff) ==
    /\ pc = "getDiff"
    /\ eventAction \in {"opened", "synchronize"}
    /\ parsedDiff' = diff
    /\ pc' = "runQualityMetrics"
    /\ UNCHANGED <<producerLog, run, thread, eventAction, currentCommitSha, historicalReviews,
                   fileIdx, aiResponse, qualityIssues, newComments, comments,
                   commentMode, filteredComments, reviewCount, reviewEvent,
                   thresholds, shouldFail, failureMessage, actionStatus,
                   prevNewComments, prevComments, originalComments>>

\* the else branch without its return: the run goes on without a diff
UnsupportedEventContinues ==
    /\ pc = "getDiff"
    /\ eventAction \notin {"opened", "synchronize"}
    /\ pc' = "runQualityMetrics"
    /\ UNCHANGED <<producerLog, run, thread, eventAction, currentCommitSha, historicalReviews,
                   parsedDiff, fileIdx, aiResponse, qualityIssues, newComments,
                   comments, commentMode, filteredComments, reviewCount,
                   reviewEvent, thresholds, shouldFail, failureMessage,
                   actionStatus, prevNewComments, prevComments, originalComments>>

\* "Unsupported event": main returns
UnsupportedEvent ==
    /\ pc = "getDiff"
    /\ eventAction \notin {"opened", "synchronize"}
    /\ pc' = "done"
    /\ UNCHANGED <<producerLog, run, thread, eventAction, currentCommitSha, historicalReviews,
                   parsedDiff, fileIdx, aiResponse, qualityIssues, newComments,
                   comments, commentMode, filteredComments, reviewCount,
                   reviewEvent, thresholds, shouldFail, failureMessage,
                   actionStatus, prevNewComments, prevComments, originalComments>>

\* "No diff found": getDiff returned null for an opened pull request
NoDiffFound ==
    /\ pc = "getDiff"
    /\ eventAction = "opened"
    /\ pc' = "done"
    /\ UNCHANGED <<producerLog, run, thread, eventAction, currentCommitSha, historicalReviews,
                   parsedDiff, fileIdx, aiResponse, qualityIssues, newComments,
                   comments, commentMode, filteredComments, reviewCount,
                   reviewEvent, thresholds, shouldFail, failureMessage,
                   actionStatus, prevNewComments, prevComments, originalComments>>

\* an entry of the log of producers: the model call for the hunk of a file
\* (kind "model") or a quality tool (kind "tool")
LogEntry(kind, producer, failed, output) ==
    [kind |-> kind, producer |-> producer, failed |-> failed, output |-> output]

\* allIssues.push(...result.issues) for each tool
RECURSIVE AllIssues(_)
AllIssues(results) ==
    IF results = <<>> THEN <<>>
    ELSE Head(results).issues \o AllIssues(Tail(results))

\* runQualityMetrics runs each tool and returns the issues of all of them
RunQualityMetrics(results) ==
    /\ pc = "runQualityMetrics"
    /\ qualityIssues' = AllIssues(results)
    /\ producerLog' = producerLog \o
            [k \in 1..Len(results) |->
                LogEntry("tool", results[k].tool, results[k].failed, results[k].issues)]
    /\ fileIdx' = 1
    /\ pc' = "analyzeCode"
    /\ UNCHANGED <<run, thread, eventAction, currentCommitSha, historicalReviews,
                   parsedDiff, aiResponse, newComments, comments, commentMode,
                   filteredComments, reviewCount, reviewEvent, thresholds,
                   shouldFail, failureMessage, actionStatus, prevNewComments,
                   prevComments, originalComments>>

\* analyzeCode, top of the loop body for one file: a deleted file is skipped,
\* the extension of a file with content is validated
AnalyzeFile ==
    /\ pc = "analyzeCode"
    /\ fileIdx <= Len(parsedDiff)
    /\ LET file == parsedDiff[fileIdx]
       IN  IF file.to = "/dev/null"
           THEN /\ fileIdx' = fileIdx + 1
                /\ pc' = "analyzeCode"
                /\ UNCHANGED newComments
           ELSE /\ newComments' = newComments \o
                        (IF file.to # Undefined /\ file.content # <<>>
                         THEN validateFileExtension(file.to, file.content[1])
                         ELSE <<>>)
                /\ pc' = "getAIResponse"
                /\ UNCHANGED fileIdx
    /\ UNCHANGED <<producerLog, run, thread, eventAction, currentCommitSha, historicalReviews,
                   parsedDiff, aiResponse, qualityIssues, comments, commentMode,
                   filteredComments, reviewCount, reviewEvent, thresholds,
                   shouldFail, failureMessage, actionStatus, prevNewComments,
                   prevComments, originalComments>>

\* analyzeCode, one chunk: getAIResponse returns the reviews of the model
GetAIResponse(reviews) ==
    /\ pc = "getAIResponse"
    /\ aiResponse' = reviews
    /\ producerLog' = Append(producerLog,
            LogEntry("model", parsedDiff[fileIdx].to, FALSE, reviews))
    /\ pc' = "createComment"
    /\ UNCHANGED <<run, thread, eventAction, currentCommitSha, historicalReviews,
                   parsedDiff, fileIdx, qualityIssues, newComments, comments,
                   commentMode, filteredComments, reviewCount, reviewEvent,
                   thresholds, shouldFail, failureMessage, actionStatus,
                   prevNewComments, prevComments, originalComments>>

GetAIResponseFailsEndsRun ==
    /\ pc = "getAIResponse"
    /\ producerLog' = Append(producerLog,
            LogEntry("model", parsedDiff[fileIdx].to, TRUE, <<>>))
    /\ actionStatus' = "error"
    /\ pc' = "done"
    /\ UNCHANGED <<run, thread, eventAction, currentCommitSha, historicalReviews,
                   parsedDiff, fileIdx, aiResponse, qualityIssues, newComments,
                   comments, commentMode, filteredComments, reviewCount,
                   reviewEvent, thresholds, shouldFail, failureMessage,
                   prevNewComments, prevComments, originalComments>>

\* analyzeCode, one chunk: the request of getAIResponse throws, or the answer
\* is not JSON with a reviews array; getAIResponse returns []
GetAIResponseFails ==
    /\ pc = "getAIResponse"
    /\ aiResponse' = <<>>
    /\ producerLog' = Append(producerLog,
            LogEntry("model", parsedDiff[fileIdx].to, TRUE, <<>>))
    /\ pc' = "createComment"
    /\ UNCHANGED <<run, thread, eventAction, currentCommitSha, historicalReviews,
                   parsedDiff, fileIdx, qualityIssues, newComments, comments,
                   commentMode, filteredComments, reviewCount, reviewEvent,
                   thresholds, shouldFail, failureMessage, actionStatus,
                   prevNewComments, prevComments, originalComments>>

\* analyzeCode, one chunk: comments.push(...createComment(file, chunk, aiResponse))
CreateComment ==
    /\ pc = "createComment"
    /\ newComments' = newComments
            \o createComment(parsedDiff[fileIdx], parsedDiff[fileIdx].chunk, aiResponse)
    /\ fileIdx' = fileIdx + 1
    /\ pc' = "analyzeCode"
    /\ UNCHANGED <<producerLog, run, thread, eventAction, currentCommitSha, historicalReviews,
                   parsedDiff, aiResponse, qualityIssues, comments, commentMode,
                   filteredComments, reviewCount, reviewEvent, thresholds,
                   shouldFail, failureMessage, actionStatus, prevNewComments,
                   prevComments, originalComments>>

\* comments = [...comments, ...qualityComments]
MergeQualityComments ==
    /\ pc = "analyzeCode"
    /\ fileIdx > Len(parsedDiff)
    /\ newComments' = newComments \o QualityComments(qualityIssues)
    /\ originalComments' = newComments \o QualityComments(qualityIssues)
    /\ pc' = "compare"
    /\ UNCHANGED <<producerLog, run, thread, eventAction, currentCommitSha, historicalReviews,
                   parsedDiff, fileIdx, aiResponse, qualityIssues, comments,
                   commentMode, filteredComments, reviewCount, reviewEvent,
                   thresholds, shouldFail, failureMessage, actionStatus,
                   prevNewComments, prevComments>>

\* comments = await compareWithPreviousReviews(comments, historicalReviews, sha);
\* the objects of the argument array are the ones the loop rewrote
Compare ==
    /\ pc = "compare"
    /\ comments' = compareWithPreviousReviews(newComments, historicalReviews,
                                              currentCommitSha)
    /\ newComments' = ProcessedComments(newComments, historicalReviews,
                                        currentCommitSha)
    /\ pc' = "filter"
    /\ UNCHANGED <<producerLog, run, thread, eventAction, currentCommitSha, historicalReviews,
                   parsedDiff, fileIdx, aiResponse, qualityIssues, commentMode,
                   filteredComments, reviewCount, reviewEvent, thresholds,
                   shouldFail, failureMessage, actionStatus, prevNewComments,
                   prevComments, originalComments>>

\* the comment_mode input is read and the reconciled list filtered for display
FilterByMode(mode) ==
    /\ pc = "filter"
    /\ commentMode' = mode
    /\ filteredComments' = FilterComments(mode, comments, historicalReviews)
    /\ pc' = "createReview"
    /\ UNCHANGED <<producerLog, run, thread, eventAction, currentCommitSha, historicalReviews,
                   parsedDiff, fileIdx, aiResponse, qualityIssues, newComments,
                   comments, reviewCount, reviewEvent, thresholds, shouldFail,
                   failureMessage, actionStatus, prevNewComments, prevComments,
                   originalComments>>

ThreadComment(published, createdAt) ==
    [body |-> published.body, path |-> published.path, line |-> published.line,
     created_at |-> createdAt]

\* createReviewComment: one review with the displayed comments is created
CreateReview ==
    /\ pc = "createReview"
    /\ thread' = thread \o
            [i \in 1..Len(filteredComments) |->
                ThreadComment(ReviewComments(filteredComments)[i], run)]
    /\ reviewCount' = reviewCount + 1
    /\ reviewEvent' = ReviewEvent(filteredComments)
    /\ pc' = "verdict"
    /\ UNCHANGED <<producerLog, run, eventAction, currentCommitSha, historicalReviews,
                   parsedDiff, fileIdx, aiResponse, qualityIssues, newComments,
                   comments, commentMode, filteredComments, thresholds,
                   shouldFail, failureMessage, actionStatus, prevNewComments,
                   prevComments, originalComments>>

\* createReviewComment: createReview throws, the error is thrown again and
\* the catch of main exits the process with code 1
CreateReviewFails ==
    /\ pc = "createReview"
    /\ reviewCount' = reviewCount + 1
    /\ actionStatus' = "error"
    /\ pc' = "done"
    /\ UNCHANGED <<producerLog, run, thread, eventAction, currentCommitSha, historicalReviews,
                   parsedDiff, fileIdx, aiResponse, qualityIssues, newComments,
                   comments, commentMode, filteredComments, reviewEvent,
                   thresholds, shouldFail, failureMessage, prevNewComments,
                   prevComments, originalComments>>

SetVerdictOnDisplayed(config) ==
    /\ pc = "verdict"
    /\ thresholds' = config
    /\ failureMessage' = Verdict(filteredComments, Len(qualityIssues),
                                 config.critical, config.warning,
                                 config.suggestion, config.failOnQuality)
    /\ shouldFail' = (failureMessage'.kind # "")
    /\ actionStatus' = IF shouldFail' THEN "failed" ELSE "passed"
    /\ pc' = "done"
    /\ UNCHANGED <<producerLog, run, thread, eventAction, currentCommitSha,
                   historicalReviews, parsedDiff, fileIdx, aiResponse,
                   qualityIssues, newComments, comments, commentMode,
                   filteredComments, reviewCount, reviewEvent, prevNewComments,
                   prevComments, originalComments>>

\* the thresholds are read and the action status is set
SetVerdict(config) ==
    /\ pc = "verdict"
    /\ thresholds' = config
    /\ failureMessage' = Verdict(comments, Len(qualityIssues), config.critical,
                                 config.warning, config.suggestion,
                                 config.failOnQuality)
    /\ shouldFail' = (failureMessage'.kind # "")
    /\ actionStatus' = IF shouldFail' THEN "failed" ELSE "passed"
    /\ pc' = "done"
    /\ UNCHANGED <<producerLog, run, thread, eventAction, currentCommitSha, historicalReviews,
                   parsedDiff, fileIdx, aiResponse, qualityIssues, newComments,
                   comments, commentMode, filteredComments, reviewCount,
                   reviewEvent, prevNewComments, prevComments, originalComments>>

Next ==
    \/ \E action \in EventActions : StartRun(action)
    \/ FetchPreviousReviews
    \/ FetchPreviousReviewsFails
    \/ \E diff \in PipelineDiffs : GetDiff(diff)
    \/ UnsupportedEvent
    \/ NoDiffFound
    \/ \E results \in PipelineToolResults : RunQualityMetrics(results)
    \/ AnalyzeFile
    \/ \E reviews \in PipelineResponses : GetAIResponse(reviews)
    \/ CreateComment
    \/ MergeQualityComments
    \/ Compare
    \/ \E mode \in CommentModes : FilterByMode(mode)
    \/ CreateReview
    \/ CreateReviewFails
    \/ \E config \in PipelineThresholds : SetVerdict(config)

Spec == Init /\ [][Next]_vars

(***************************************************************************)
(* createComment on its own: analyzeCode is at the only chunk of the only  *)
(* file; the chunk and the finding of the model range over all small       *)
(* cases.                                                                  *)
(***************************************************************************)
ChangeTypes == {"add", "normal", "del"}

\* at most MaxChanges of the lines 1..MaxLine
ChunkLines == {ls \in SUBSET (1..MaxLine) : Cardinality(ls) <= MaxChanges}

\* the chunks with one change on each of the lines
Chunks(lines) ==
    {{Change(type[ln], ln) : ln \in lines} : type \in [lines -> ChangeTypes]}

LineMapperResponses ==
    {<<Finding(lineNumber, <<"a">>, severity)>> :
        lineNumber \in 0..(MaxLine + 1), severity \in {"critical", Undefined}}

InitLineMapper ==
    /\ pc = "analyzeCode"
    /\ run = 1
    /\ thread = <<>>
    /\ eventAction = "opened"
    /\ currentCommitSha = CommitOfRun(1)
    /\ prevNewComments = <<>>
    /\ prevComments = <<>>
    /\ historicalReviews = <<>>
    /\ \E to \in {"a", Undefined, "/dev/null"}, lines \in ChunkLines :
            \E chunk \in Chunks(lines) :
                parsedDiff = <<[to |-> to, chunk |-> chunk, content |-> <<>>]>>
    /\ fileIdx = 1
    /\ aiResponse = <<>>
    /\ qualityIssues = <<>>
    /\ newComments = <<>>
    /\ comments = <<>>
    /\ commentMode = "all"
    /\ filteredComments = <<>>
    /\ reviewCount = 0
    /\ reviewEvent = "none"
    /\ thresholds = NoThresholds
    /\ shouldFail = FALSE
    /\ failureMessage = NoMessage
    /\ actionStatus = "none"
    /\ originalComments = <<>>
    /\ producerLog = <<>>

NextLineMapper ==
    \/ AnalyzeFile
    \/ \E reviews \in LineMapperResponses : GetAIResponse(reviews)
    \/ CreateComment

SpecLineMapper == InitLineMapper /\ [][NextLineMapper]_vars

\* the add and context lines of a chunk
AnchorLines(chunk) ==
    {change.ln : change \in {c \in chunk : c.type \in {"add", "normal"}}}

\* createComment has just run on the single finding of aiResponse
MappedOneFinding ==
    /\ pc = "analyzeCode"
    /\ fileIdx = 2
    /\ Len(parsedDiff) = 1
    /\ Len(aiResponse) = 1

\* C4: the issue produced for a finding with reported line L has line L when
\* L is an add/context line of the hunk, otherwise the add/context line at the
\* smallest distance from L, the smaller of two equidistant lines; no issue
\* is produced when the hunk has no add/context line.
C4_NearestLine ==
    MappedOneFinding =>
        LET S == AnchorLines(parsedDiff[1].chunk)
            L == aiResponse[1].lineNumber
        IN  /\ S = {} => newComments = <<>>
            /\ (S # {} /\ parsedDiff[1].to # Undefined) => Len(newComments) = 1
            /\ \A i \in 1..Len(newComments) :
                LET line == newComments[i].line
                IN  /\ line \in S
                    /\ L \in S => line = L
                    /\ \A s \in S :
                        /\ Abs(line - L) <= Abs(s - L)
                        /\ Abs(s - L) = Abs(line - L) => line <= s

C4_Witness ==
    /\ MappedOneFinding
    /\ AnchorLines(parsedDiff[1].chunk) = {5, 9}
    /\ aiResponse[1].lineNumber = 7
    /\ Len(newComments) = 1
    /\ newComments[1].line = 5

(***************************************************************************)
(* The reconciler on its own: main is about to call                        *)
(* compareWithPreviousReviews.  The pull request holds review comments of  *)
(* earlier runs and of other authors; the current issues range over small  *)
(* lists.                                                                  *)
(***************************************************************************)
\* the sequences over S of length at most n
SeqsUpTo(S, n) == UNION {[1..k -> S] : k \in 0..n}

Issue(body, path, line, severity) ==
    ReviewComment(body, path, line, severity, NoId, Undefined, Undefined)

\* the review comment that a run at commit sha publishes for a new issue
PublishedIssue(issue, sha, createdAt) ==
    ThreadComment(PublishedComment(ProcessComment(issue, <<>>, sha)), createdAt)

\* a review comment that carries the tracking marker and the text of the
\* issue without the severity prefix of createReviewComment
BareMarkerComment(issue, sha, createdAt) ==
    [body |-> ProcessComment(issue, <<>>, sha).body, path |-> issue.path,
     line |-> issue.line, created_at |-> createdAt]

\* a review comment of a human: no marker
HumanComment(body, path, line, createdAt) ==
    [body |-> body, path |-> path, line |-> line, created_at |-> createdAt]

BodyA == <<"a">>
BodyTaggedA == <<"[", "x", "]", "a">>
BodyB == <<"b">>

ReconcileIssues ==
    {Issue(BodyA, "a", line, "warning") : line \in {2, 5, 6}}
        \cup {Issue(BodyTaggedA, "a", 5, "warning")}
        \cup {Issue(BodyA, "b", 2, "warning")}

ReconcileFetched ==
    {PublishedIssue(Issue(BodyA, "a", 2, "warning"), CommitOfRun(1), 1)}
        \cup {PublishedIssue(Issue(BodyA, "b", 2, "critical"), CommitOfRun(1), 1)}
        \cup {BareMarkerComment(Issue(BodyA, "a", line, "warning"), CommitOfRun(1), 1) :
                line \in {2, 6}}
        \cup {BareMarkerComment(Issue(BodyTaggedA, "a", 2, "warning"), CommitOfRun(1), 1)}
        \cup {HumanComment(BodyA, "a", 2, 1)}

\* main has fetched the history, collected the issues and is at the call
AtCompare(fetched, issues, quality) ==
    /\ pc = "compare"
    /\ run = 2
    /\ thread = fetched
    /\ eventAction = "synchronize"
    /\ currentCommitSha = CommitOfRun(2)
    /\ prevNewComments = <<>>
    /\ prevComments = <<>>
    /\ historicalReviews = getPreviousReviews(fetched)
    /\ parsedDiff = <<>>
    /\ fileIdx = 1
    /\ aiResponse = <<>>
    /\ qualityIssues = quality
    /\ newComments = issues \o QualityComments(quality)
    /\ originalComments = issues \o QualityComments(quality)
    /\ comments = <<>>
    /\ commentMode = "all"
    /\ filteredComments = <<>>
    /\ reviewCount = 0
    /\ reviewEvent = "none"
    /\ thresholds = NoThresholds
    /\ shouldFail = FALSE
    /\ failureMessage = NoMessage
    /\ actionStatus = "none"
    /\ producerLog = <<>>

InitReconcile ==
    \E fetched \in SeqsUpTo(ReconcileFetched, MaxHist),
       issues \in SeqsUpTo(ReconcileIssues, MaxNew) :
        AtCompare(fetched, issues, <<>>)

NextReconcile ==
    \/ Compare
    \/ \E mode \in CommentModes : FilterByMode(mode)

SpecReconcile == InitReconcile /\ [][NextReconcile]_vars

(***************************************************************************)
(* The policy gate on its own: the rest of main from the reconciler on,    *)
(* for issues of every severity and every combination of thresholds.       *)
(***************************************************************************)
MaxThreshold == 1

GateIssues == {Issue(BodyA, "a", 2, severity) : severity \in Severities}

GateFetched ==
    {PublishedIssue(Issue(BodyB, "a", 6, severity), CommitOfRun(1), 1) :
        severity \in Severities}

GateQualityIssues ==
    {<<>>, <<QualityIssue("a", 5, <<"b">>, <<"r">>, "suggestion")>>}

GateThresholds ==
    [critical : -1..MaxThreshold, warning : -1..MaxThreshold,
     suggestion : -1..MaxThreshold, failOnQuality : BOOLEAN]

InitGate ==
    \E fetched \in SeqsUpTo(GateFetched, 1),
       issues \in SeqsUpTo(GateIssues, MaxNew),
       quality \in GateQualityIssues :
        AtCompare(fetched, issues, quality)

NextGate ==
    \/ Compare
    \/ \E mode \in CommentModes : FilterByMode(mode)
    \/ CreateReview
    \/ \E config \in GateThresholds : SetVerdict(config)

SpecGate == InitGate /\ [][NextGate]_vars

(***************************************************************************)
(* getPreviousReviews on its own: main has read the event and is about to  *)
(* list the review comments of the pull request, which hold comments of    *)
(* the action, of humans, and comments with a damaged marker.              *)
(***************************************************************************)
MarkerOfA == TrackingMarker(CommentId(Issue(BodyA, "a", 2, "warning")), CommitOfRun(1))

HistoryFetched ==
    {PublishedIssue(Issue(BodyA, "a", 2, "warning"), CommitOfRun(1), 1),
     BareMarkerComment(Issue(BodyA, "a", 5, "warning"), CommitOfRun(1), 1),
     \* the line of the comment is null
     BareMarkerComment(Issue(BodyB, "a", 0, "warning"), CommitOfRun(1), 1),
     \* lower-case severity tag, marker at the end
     HumanComment(<<"[", "suggestion", "]", SP, "b", SP>> \o MarkerOfA, "a", 2, 1),
     \* two markers
     HumanComment(MarkerOfA \o <<LF>>
                    \o TrackingMarker(<<"x">>, CommitOfRun(1)) \o <<"b">>, "b", 2, 1),
     \* no marker
     HumanComment(BodyA, "a", 2, 1),
     \* another HTML comment
     HumanComment(<<"<!--", "x", "-->", LF, "a">>, "a", 2, 1),
     \* no commit part
     HumanComment(<<"<!--", "review-id:", "x", "-->", LF, "a">>, "a", 2, 1),
     \* a line break inside the marker
     HumanComment(<<"<!--", "review-id:", "x", LF, ",commit:", "c", "-->", "a">>,
                  "a", 2, 1),
     \* the marker is not closed
     HumanComment(<<"<!--", "review-id:", "x", ",commit:", "c", LF, "a">>, "a", 2, 1)}

InitHistoryLoader ==
    /\ pc = "getPreviousReviews"
    /\ run = 2
    /\ thread \in SeqsUpTo(HistoryFetched, MaxHist)
    /\ eventAction = "synchronize"
    /\ currentCommitSha = CommitOfRun(2)
    /\ prevNewComments = <<>>
    /\ prevComments = <<>>
    /\ IdleLocals

NextHistoryLoader == FetchPreviousReviews

SpecHistoryLoader == InitHistoryLoader /\ [][NextHistoryLoader]_vars

(***************************************************************************)
(* The producers on their own: the second run on a pull request has read   *)
(* the history and the diff, which has two files of one hunk each; two     *)
(* quality tools are configured.  Every model call and every tool may      *)
(* fail.                                                                   *)
(***************************************************************************)
ProducerDiff ==
    <<[to |-> "a", chunk |-> PipelineChunk, content |-> <<>>],
      [to |-> "b", chunk |-> PipelineChunk, content |-> <<>>]>>

\* the review comments of the first run
ProducerThreads ==
    {<<>>,
     <<PublishedIssue(Issue(BodyA, "a", 2, "warning"), CommitOfRun(1), 1)>>,
     <<PublishedIssue(Issue(BodyA, "a", 2, "warning"), CommitOfRun(1), 1),
       PublishedIssue(Issue(BodyB, "b", 5, "critical"), CommitOfRun(1), 1)>>}

ProducerResponses ==
    {<<>>,
     <<Finding(2, BodyA, "warning")>>,
     <<Finding(5, BodyB, "critical")>>}

ProducerToolResults ==
    {<<eslint, pylint>> :
        eslint \in {ToolFailure("eslint"),
                    ToolResult("eslint",
                        <<QualityIssue("a", 5, <<"b">>, <<"r">>, "suggestion")>>)},
        pylint \in {ToolFailure("pylint"),
                    ToolResult("pylint",
                        <<QualityIssue("b", 2, <<"x">>, <<"r">>, "warning")>>)}}

InitProducers ==
    /\ pc = "runQualityMetrics"
    /\ run = 2
    /\ thread \in ProducerThreads
    /\ eventAction = "synchronize"
    /\ currentCommitSha = CommitOfRun(2)
    /\ prevNewComments = <<>>
    /\ prevComments = <<>>
    /\ historicalReviews = getPreviousReviews(thread)
    /\ parsedDiff = ProducerDiff
    /\ fileIdx = 0
    /\ aiResponse = <<>>
    /\ qualityIssues = <<>>
    /\ newComments = <<>>
    /\ comments = <<>>
    /\ commentMode = "all"
    /\ filteredComments = <<>>
    /\ reviewCount = 0
    /\ reviewEvent = "none"
    /\ thresholds = NoThresholds
    /\ shouldFail = FALSE
    /\ failureMessage = NoMessage
    /\ actionStatus = "none"
    /\ originalComments = <<>>
    /\ producerLog = <<>>

NextProducers ==
    \/ \E results \in ProducerToolResults : RunQualityMetrics(results)
    \/ AnalyzeFile
    \/ \E reviews \in ProducerResponses : GetAIResponse(reviews)
    \/ GetAIResponseFails
    \/ CreateComment
    \/ MergeQualityComments
    \/ Compare
    \/ \E mode \in CommentModes : FilterByMode(mode)
    \/ CreateReview
    \/ \E config \in PipelineThresholds : SetVerdict(config)

SpecProducers == InitProducers /\ [][NextProducers]_vars

(***************************************************************************)
(* The ids on their own: compareWithPreviousReviews on issues whose paths  *)
(* and bodies hold the separator of the id, with an empty history.         *)
(***************************************************************************)
IdIssues ==
    {Issue(body, path, line, "warning") :
        body \in {<<"x">>, <<"2", ":", "x">>}, path \in {"a", "a:1"}, line \in 1..2}

InitIds == \E issues \in SeqsUpTo(IdIssues, MaxNew) : AtCompare(<<>>, issues, <<>>)

NextIds == Compare

SpecIds == InitIds /\ [][NextIds]_vars

(***************************************************************************)
(* Properties.                                                             *)
(***************************************************************************)
\* indices of the reconciled list by status
ResolvedIdx == {i \in 1..Len(comments) : comments[i].status = "resolved"}
CurrentIdx == {i \in 1..Len(comments) : comments[i].status # "resolved"}

HistoricalIds ==
    {historicalReviews[h].comment.id : h \in 1..Len(historicalReviews)}

CurrentIds == {comments[i].id : i \in CurrentIdx}

\* the body ends with the "previously reported" advisory
HasAdvisory(body) ==
    /\ Len(body) >= Len(AdvisorySuffix)
    /\ SubSeq(body, Len(body) - Len(AdvisorySuffix) + 1, Len(body)) = AdvisorySuffix

Occurrences(list, c) == Cardinality({i \in 1..Len(list) : list[i] = c})

\* list "shown" holds exactly the elements of list "all" that satisfy Keep
ShowsExactly(shown, all, Keep(_)) ==
    \A c \in {all[i] : i \in 1..Len(all)} \cup {shown[i] : i \in 1..Len(shown)} :
        Occurrences(shown, c) = IF Keep(c) THEN Occurrences(all, c) ELSE 0

\* the review comments of the pull request when a run at time createdAt
\* displayed the whole reconciled list
ReadBack(reconciled, createdAt) ==
    [i \in 1..Len(reconciled) |->
        ThreadComment(ReviewComments(reconciled)[i], createdAt)]

\* the history of this run is the output of the previous run, published and
\* read back
HistoryIsPreviousOutput ==
    \E k \in 1..MaxRuns :
        historicalReviews = getPreviousReviews(ReadBack(prevComments, k))

\* C1: in a second run with the same current issues, whose history is the
\* published output of the first run, every current issue carries the
\* "previously reported" advisory and no resolved issue is emitted.
C1_Idempotent ==
    (/\ pc = "filter"
     /\ originalComments # <<>>
     /\ originalComments = prevNewComments
     /\ HistoryIsPreviousOutput)
        => /\ ResolvedIdx = {}
           /\ \A i \in CurrentIdx : HasAdvisory(comments[i].body)

\* C2: the reconciled list holds one resolved issue for each historical
\* record whose id is the id of no current issue, and no other resolved issue.
C2_ResolutionComplete ==
    pc = "filter" =>
        \A x \in HistoricalIds \cup {comments[i].id : i \in ResolvedIdx} :
            Cardinality({i \in ResolvedIdx : comments[i].id = x})
                = IF x \in CurrentIds THEN 0
                  ELSE Cardinality({h \in 1..Len(historicalReviews) :
                                        historicalReviews[h].comment.id = x})

C2_Witness ==
    /\ pc = "filter"
    /\ ResolvedIdx # {}
    /\ HistoricalIds \cap CurrentIds # {}
    /\ \E h \in 1..Len(historicalReviews) :
            historicalReviews[h].comment.id \notin CurrentIds

\* C3: when run 1 published an issue and run 2 has no current issue, the
\* reconciled list of run 2 holds exactly one resolved issue for it (one for
\* each comment run 1 published for it), with the
\* path, line and severity of run 1 and with the resolution marker followed by
\* the original body of run 1 as its body.
C3_ResolvedKeepsOriginal ==
    (/\ pc = "filter"
     /\ originalComments = <<>>
     /\ HistoryIsPreviousOutput)
        => \A j \in 1..Len(prevNewComments) :
            LET found == {i \in ResolvedIdx : comments[i].id = prevComments[j].id}
                published == {m \in 1..Len(prevNewComments) :
                                prevComments[m].id = prevComments[j].id}
            IN  /\ Cardinality(found) = Cardinality(published)
                /\ \A i \in found :
                    /\ comments[i].path = prevNewComments[j].path
                    /\ comments[i].line = prevNewComments[j].line
                    /\ comments[i].severity = prevNewComments[j].severity
                    /\ comments[i].body = ResolvedPrefix \o prevNewComments[j].body

\* the classification of the reconciler: resolved, persistent (advisory
\* appended) or new
ClassifiedNew(c) == c.status # "resolved" /\ ~HasAdvisory(c.body)
ClassifiedUnresolved(c) == c.status # "resolved"
FirstSeen(c) == c.id \notin HistoricalIds
Always(c) == TRUE

\* C5: comment_mode new displays exactly the issues classified new,
\* comment_mode unresolved exactly the new and the persistent issues, and
\* comment_mode all every issue.
C5_ModeByStatus ==
    pc = "createReview" =>
        /\ commentMode = "new" =>
                ShowsExactly(filteredComments, comments, ClassifiedNew)
        /\ commentMode = "unresolved" =>
                ShowsExactly(filteredComments, comments, ClassifiedUnresolved)
        /\ commentMode = "all" => filteredComments = comments

\* C6: comment_mode all displays every reconciled issue, comment_mode new
\* exactly those whose id is the id of no historical record, comment_mode
\* unresolved exactly those whose status is not resolved.
C6_ModeFilter ==
    pc = "createReview" =>
        /\ commentMode = "all" =>
                ShowsExactly(filteredComments, comments, Always)
        /\ commentMode = "new" =>
                ShowsExactly(filteredComments, comments, FirstSeen)
        /\ commentMode = "unresolved" =>
                ShowsExactly(filteredComments, comments, ClassifiedUnresolved)

C6_Witness ==
    /\ pc = "createReview"
    /\ commentMode = "new"
    /\ filteredComments # <<>>
    /\ ResolvedIdx # {}
    /\ \E i \in CurrentIdx : comments[i].id \in HistoricalIds
    /\ \E i \in CurrentIdx :
            /\ HasAdvisory(comments[i].body)
            /\ comments[i].id \notin HistoricalIds

\* number of reconciled issues of a tier that are not resolved
TierCount(tier) ==
    Cardinality({i \in CurrentIdx : comments[i].severity = tier})

\* the tier has a threshold and more issues than it allows
Exceeded(tier) == thresholds[tier] >= 0 /\ TierCount(tier) > thresholds[tier]

VerdictSet == pc = "done" /\ actionStatus \in {"passed", "failed"}

\* C7: the action is failed exactly when a tier with a threshold >= 0 has
\* more non-resolved issues than the threshold, or fail_on_quality_issues is
\* set and a quality tool found an issue.
C7_Verdict ==
    VerdictSet =>
        /\ shouldFail = (actionStatus = "failed")
        /\ (actionStatus = "failed")
            <=> \/ \E tier \in Severities : Exceeded(tier)
                \/ thresholds.failOnQuality /\ Len(qualityIssues) > 0

C7_Witness ==
    /\ VerdictSet
    /\ actionStatus = "passed"
    /\ thresholds.critical = -1
    /\ TierCount("critical") > 0
    /\ thresholds.warning = 0
    /\ TierCount("warning") = 0
    /\ \E i \in ResolvedIdx : comments[i].severity = "warning"

\* C8: a failure message names the first tier, in the order critical,
\* warning, suggestion, that exceeds its threshold; the quality message is
\* produced only when no tier exceeds its threshold.
C8_MostSevereReason ==
    (VerdictSet /\ actionStatus = "failed") =>
        LET first == IF Exceeded("critical") THEN "critical"
                     ELSE IF Exceeded("warning") THEN "warning"
                     ELSE IF Exceeded("suggestion") THEN "suggestion"
                     ELSE "quality"
        IN  /\ failureMessage.kind = first
            /\ first # "quality" =>
                /\ failureMessage.count = TierCount(first)
                /\ failureMessage.threshold = thresholds[first]

C8_Witness ==
    /\ VerdictSet
    /\ Exceeded("critical")
    /\ Exceeded("warning")
    /\ Exceeded("suggestion")
    /\ thresholds.failOnQuality
    /\ Len(qualityIssues) > 0
    /\ failureMessage.kind = "critical"

\* the same location and the same text
SameIssue(a, b) == a.path = b.path /\ a.line = b.line /\ a.body = b.body

\* C9: issues with the same path, line and body get the same id within a run
\* and in consecutive runs, whatever their producer, the commit and the
\* history; an issue reported again is not emitted as resolved.
C9_StableId ==
    pc = "filter" =>
        /\ \A i, j \in 1..Len(originalComments) :
                SameIssue(originalComments[i], originalComments[j])
                    => comments[i].id = comments[j].id
        /\ \A i \in 1..Len(originalComments), j \in 1..Len(prevNewComments) :
                SameIssue(originalComments[i], prevNewComments[j])
                    => /\ comments[i].id = prevComments[j].id
                       /\ \A k \in ResolvedIdx : comments[k].id # prevComments[j].id

C9_Witness ==
    /\ pc = "filter"
    /\ historicalReviews # <<>>
    /\ ResolvedIdx # {}
    /\ \E i \in 1..Len(originalComments), j \in 1..Len(prevNewComments) :
            /\ SameIssue(originalComments[i], prevNewComments[j])
            /\ originalComments[i].source # prevNewComments[j].source
            /\ comments[i].id = prevComments[j].id
            /\ comments[i].id \in HistoricalIds

\* the body without embedded markers and bracketed tags
Normalized(body) == Trim(StripBrackets(StripComments(body)))

SameNormalizedIssue(a, b) ==
    a.path = b.path /\ a.line = b.line /\ Normalized(a.body) = Normalized(b.body)

\* C10: issues with the same path and line whose bodies are equal after
\* stripping markers and bracketed tags get the same id.
C10_NormalizedId ==
    pc = "filter" =>
        /\ \A i, j \in 1..Len(originalComments) :
                SameNormalizedIssue(originalComments[i], originalComments[j])
                    => comments[i].id = comments[j].id
        /\ \A i \in 1..Len(originalComments), j \in 1..Len(prevNewComments) :
                SameNormalizedIssue(originalComments[i], prevNewComments[j])
                    => comments[i].id = prevComments[j].id

\* C11: every issue of the reconciled list has a status.
C11_StatusSet ==
    pc = "filter" =>
        \A i \in 1..Len(comments) : comments[i].status # Undefined

\* C12: every issue of the reconciled list, whatever its producer, has one of
\* the severities critical, warning, suggestion.
C12_SeverityInRange ==
    pc = "filter" =>
        \A i \in 1..Len(comments) : comments[i].severity \in Severities

\* C13: a run for an opened or synchronize event that has a diff calls
\* createReview exactly once, after the reconciliation and before the verdict,
\* and the review holds the displayed comments; a run for another event, or
\* without a diff, publishes nothing and does not fail the action.
C13_OneReviewPerRun ==
    [][/\ reviewCount' \in {0, 1}
       /\ reviewCount' = reviewCount + 1 =>
            /\ comments = compareWithPreviousReviews(originalComments,
                                historicalReviews, currentCommitSha)
            /\ actionStatus = "none"
            /\ actionStatus' \in {"none", "error"}
            /\ actionStatus' = "none" =>
                    thread' = thread \o ReadBack(filteredComments, run)
       /\ thread' # thread => reviewCount' = reviewCount + 1
       /\ (actionStatus' \in {"passed", "failed"} /\ actionStatus = "none") =>
            reviewCount = 1
       /\ (pc # "done" /\ pc' = "done") =>
            IF eventAction \in {"opened", "synchronize"} /\ DiffObtained
            THEN reviewCount' = 1
            ELSE /\ reviewCount' = 0
                 /\ thread' = thread
                 /\ actionStatus' = "none"]_vars

C13_Witness ==
    /\ pc = "done"
    /\ run = 2
    /\ eventAction = "synchronize"
    /\ actionStatus = "passed"
    /\ reviewCount = 1
    /\ comments = <<>>
    /\ thread # <<>>

\* C14: the action is failed whenever the run has a critical issue or a
\* warning that is not resolved.
C14_FailsOnCriticalOrWarning ==
    VerdictSet =>
        ((TierCount("critical") > 0 \/ TierCount("warning") > 0)
            => actionStatus = "failed")

\* the persistence rule: same path, lines at most 3 apart, equal bodies once
\* the bracketed tags are removed and the result trimmed
MatchesRecord(record, issue) ==
    /\ record.comment.path = issue.path
    /\ record.comment.line - issue.line \in -3..3
    /\ Trim(StripBrackets(record.comment.body)) = Trim(StripBrackets(issue.body))

\* C15: a historical record that matches a current issue under the
\* persistence rule is not emitted as a resolved issue.
C15_MatchedNotResolved ==
    pc = "filter" =>
        \A h \in 1..Len(historicalReviews) :
            (\E i \in 1..Len(originalComments) :
                MatchesRecord(historicalReviews[h], originalComments[i]))
            => \A k \in ResolvedIdx :
                    comments[k].id # historicalReviews[h].comment.id

\* C16: a current issue gets the "previously reported" advisory exactly when
\* a historical record matches it under the persistence rule; otherwise its
\* text is only prefixed with the tracking marker.
C16_PersistenceRule ==
    pc = "filter" =>
        \A i \in 1..Len(originalComments) :
            LET issue == originalComments[i]
                matched == \E h \in 1..Len(historicalReviews) :
                                MatchesRecord(historicalReviews[h], issue)
                marked == TrackingMarker(comments[i].id, currentCommitSha)
                            \o <<LF>> \o issue.body
            IN  /\ HasAdvisory(comments[i].body) <=> matched
                /\ comments[i].body =
                        IF matched THEN marked \o AdvisorySuffix ELSE marked

\* a record 3 lines away makes one issue persistent while an issue with the
\* same text 4 lines away from it stays new
C16_Witness ==
    /\ pc = "filter"
    /\ \E h \in 1..Len(historicalReviews), i, j \in 1..Len(originalComments) :
        /\ originalComments[i].line - historicalReviews[h].comment.line = 3
        /\ originalComments[j].line - historicalReviews[h].comment.line = 4
        /\ originalComments[i].path = historicalReviews[h].comment.path
        /\ originalComments[j].path = historicalReviews[h].comment.path
        /\ originalComments[i].body = originalComments[j].body
        /\ HasAdvisory(comments[i].body)
        /\ ~HasAdvisory(comments[j].body)

\* C17: every issue handed to the reconciler is anchored: its line is an add
\* or context line of a hunk of its file in the diff of the run.
C17_Anchored ==
    pc = "compare" =>
        \A i \in 1..Len(newComments) :
            \E f \in 1..Len(parsedDiff) :
                /\ parsedDiff[f].to = newComments[i].path
                /\ newComments[i].line \in AnchorLines(parsedDiff[f].chunk)

\* the thread comment of a run for one issue of its reconciled list
PublishedFor(issue) == ThreadComment(PublishedComment(issue), run)

\* C18: the text of every current issue of the reconciled list starts with
\* the marker of its id and the current commit, and getPreviousReviews reads
\* exactly that id and that commit back from the comment published for it.
C18_MarkerRoundTrip ==
    pc = "filter" =>
        \A i \in 1..Len(originalComments) :
            LET marker == <<"<!--", "review-id:">> \o comments[i].id
                            \o <<",commit:">> \o currentCommitSha \o <<"-->">>
                records == getPreviousReviews(<<PublishedFor(comments[i])>>)
            IN  /\ comments[i].id # NoId
                /\ SubSeq(comments[i].body, 1, Len(marker)) = marker
                /\ Len(records) = 1
                /\ records[1].id = comments[i].id
                /\ records[1].comment.id = comments[i].id
                /\ records[1].commitSha = currentCommitSha

\* the second run has read back a record that the first run published, and
\* has current issues of its own
C18_Witness ==
    /\ pc = "filter"
    /\ run = 2
    /\ originalComments # <<>>
    /\ \E h \in 1..Len(historicalReviews), j \in 1..Len(prevNewComments) :
        /\ historicalReviews[h].id = prevComments[j].id
        /\ historicalReviews[h].commitSha = CommitOfRun(1)
        /\ historicalReviews[h].comment.path = prevNewComments[j].path
        /\ historicalReviews[h].comment.line = prevNewComments[j].line

\* C19: the text of a comment that createComment moved to another line
\* starts with the note of the reported line; the text of a comment whose
\* reported line is in the hunk is the text of the finding.
C19_RemapNote ==
    MappedOneFinding =>
        \A i \in 1..Len(newComments) :
            LET L == aiResponse[1].lineNumber
                text == aiResponse[1].reviewComment
                note == <<"[", OriginalLineText>> \o ToDecimal(L) \o <<"]", LF>>
            IN  /\ L \in AnchorLines(parsedDiff[1].chunk) =>
                    /\ newComments[i].line = L
                    /\ newComments[i].body = text
                /\ newComments[i].line # L => newComments[i].body = note \o text

C19_Witness ==
    /\ MappedOneFinding
    /\ aiResponse[1].lineNumber = 7
    /\ Len(newComments) = 1
    /\ newComments[1].line = 9
    /\ newComments[1].body =
            <<"[", OriginalLineText, "7", "]", LF>> \o aiResponse[1].reviewComment

\* the text holds <!--review-id:ID,commit:SHA--> with no line break in ID and
\* SHA
WellFormedMarker(s) ==
    \E i, j, k \in 1..Len(s) :
        /\ i + 1 < j
        /\ j < k
        /\ s[i] = "<!--"
        /\ s[i + 1] = "review-id:"
        /\ s[j] = ",commit:"
        /\ s[k] = "-->"
        /\ \A m \in (i + 2)..(k - 1) : s[m] # LF

\* C20: getPreviousReviews returns one record with status active for each
\* fetched comment that holds a well-formed marker, in their order, and none
\* for any other comment; the record of a comment is the one it gets when it
\* is the only comment fetched.
C20_OneRecordPerMarker ==
    pc = "getDiff" =>
        LET Marked(c) == WellFormedMarker(c.body)
            marked == SelectSeq(thread, Marked)
        IN  /\ Len(historicalReviews) = Len(marked)
            /\ \A k \in 1..Len(marked) :
                /\ historicalReviews[k].comment.status = "active"
                /\ historicalReviews[k].comment.path = marked[k].path
                /\ historicalReviews[k].timestamp = marked[k].created_at
                /\ <<historicalReviews[k]>> = getPreviousReviews(<<marked[k]>>)

\* a comment with a damaged marker was fetched before a comment of the action
C20_Witness ==
    /\ pc = "getDiff"
    /\ Len(thread) = 2
    /\ Len(historicalReviews) = 1
    /\ ~WellFormedMarker(thread[1].body)
    /\ \E i \in 1..Len(thread[1].body) : thread[1].body[i] = "review-id:"
    /\ WellFormedMarker(thread[2].body)
    /\ historicalReviews[1].comment.path = thread[2].path

\* C21: a fetched comment that carries a marker but has no line yields no
\* historical record: the records are those of the marked comments with a
\* line.
C21_NoLineSkipped ==
    pc = "getDiff" =>
        LET MarkedWithLine(c) == WellFormedMarker(c.body) /\ c.line # 0
        IN  historicalReviews = getPreviousReviews(SelectSeq(thread, MarkedWithLine))

\* the issue of validateFileExtension
IsExtensionMismatch(c) == c.line = 1 /\ c.severity = "critical" /\ Head(c.body) = EmojiWarning

\* C22: an AI finding whose severity is missing or is none of critical,
\* warning, suggestion becomes an issue of severity warning: when the only
\* hunk has been analysed and no finding had a known severity, every issue of
\* createComment has severity warning.
C22_DefaultsToWarning ==
    (/\ pc = "analyzeCode"
     /\ Len(parsedDiff) = 1
     /\ fileIdx = 2
     /\ \A k \in 1..Len(aiResponse) : aiResponse[k].severity \notin Severities)
        => \A i \in 1..Len(newComments) :
                \/ IsExtensionMismatch(newComments[i])
                \/ newComments[i].severity = "warning"

\* C23: compareWithPreviousReviews leaves the issues of the list it was given
\* as they were, and the historical records too.
C23_InputsUnchanged ==
    [][pc = "compare" =>
            /\ newComments' = newComments
            /\ historicalReviews' = historicalReviews]_vars

IsModelEntry(e) == e.kind = "model"
IsToolEntry(e) == e.kind = "tool"

RECURSIVE Flatten(_)
Flatten(lists) ==
    IF lists = <<>> THEN <<>> ELSE Head(lists) \o Flatten(Tail(lists))

\* the issues of what the producers of the run returned, a failed producer
\* counting for nothing: the model calls hunk by hunk, then the tools
ReturnedIssues ==
    LET modelLog == SelectSeq(producerLog, IsModelEntry)
        toolLog == SelectSeq(producerLog, IsToolEntry)
        Output(e) == IF e.failed THEN <<>> ELSE e.output
    IN  Flatten([i \in 1..Len(modelLog) |->
                    createComment(parsedDiff[i], parsedDiff[i].chunk,
                                  Output(modelLog[i]))])
            \o QualityComments(Flatten([k \in 1..Len(toolLog) |-> Output(toolLog[k])]))

\* the last review comments of the pull request are the displayed comments
ReviewPublished ==
    /\ reviewCount = 1
    /\ Len(thread) >= Len(filteredComments)
    /\ \A i \in 1..Len(filteredComments) :
            thread[Len(thread) - Len(filteredComments) + i]
                = ThreadComment(PublishedComment(filteredComments[i]), run)

\* C24: whichever model calls and quality tools fail, the run goes on: the
\* list handed to the reconciler holds the issues of every producer that did
\* not fail, each of them is in the reconciled list as a current issue, and
\* the run ends with the review created.
C24_PartialFailure ==
    /\ pc \in {"compare", "filter", "createReview", "verdict", "done"}
            => originalComments = ReturnedIssues
    /\ pc \in {"filter", "createReview", "verdict", "done"}
            => /\ Len(comments) >= Len(originalComments)
               /\ \A i \in 1..Len(originalComments) :
                    /\ comments[i].path = originalComments[i].path
                    /\ comments[i].line = originalComments[i].line
                    /\ comments[i].status # "resolved"
    /\ pc \in {"verdict", "done"} => ReviewPublished

\* the model call failed for the first hunk and the first tool failed; the
\* finding of the second hunk and the issue of the second tool are published
C24_Witness ==
    /\ pc = "done"
    /\ Len(producerLog) = 4
    /\ producerLog[1].failed /\ ~producerLog[2].failed
    /\ producerLog[3].failed /\ ~producerLog[4].failed
    /\ Len(originalComments) = 2
    /\ originalComments[1].path = "b"
    /\ originalComments[2].source = "quality-tool"
    /\ commentMode = "all"
    /\ ReviewPublished

\* C25: a historical issue that is no longer reported is emitted as resolved
\* once in the run, however many earlier comments carry it.
C25_ResolvedOnce ==
    pc = "filter" =>
        \A i, j \in ResolvedIdx : comments[i].id = comments[j].id => i = j

\* C26: the review has the event REQUEST_CHANGES exactly when a displayed
\* issue is critical or warning and not resolved; otherwise COMMENT.
C26_RequestChanges ==
    pc = "verdict" =>
        /\ reviewEvent \in {"REQUEST_CHANGES", "COMMENT"}
        /\ reviewEvent = "REQUEST_CHANGES"
            <=> \E i \in 1..Len(filteredComments) :
                    /\ filteredComments[i].severity \in {"critical", "warning"}
                    /\ filteredComments[i].status # "resolved"

\* C27: the verdict and its message are determined by the findings, the
\* history, the quality issues and the thresholds; comment_mode and the
\* displayed list have no part in them.
C27_VerdictIgnoresMode ==
    VerdictSet =>
        LET reconciled == compareWithPreviousReviews(originalComments,
                                historicalReviews, currentCommitSha)
            message == Verdict(reconciled, Len(qualityIssues), thresholds.critical,
                               thresholds.warning, thresholds.suggestion,
                               thresholds.failOnQuality)
        IN  /\ failureMessage = message
            /\ actionStatus = IF message.kind = "" THEN "passed" ELSE "failed"

\* mode new hides the issue that fails the action: the verdict computed on
\* the displayed list would pass
C27_Witness ==
    /\ VerdictSet
    /\ commentMode = "new"
    /\ actionStatus = "failed"
    /\ failureMessage.kind \in Severities
    /\ filteredComments # comments
    /\ Verdict(filteredComments, Len(qualityIssues), thresholds.critical,
               thresholds.warning, thresholds.suggestion,
               thresholds.failOnQuality) = NoMessage

\* C28: when the fetch of the review comments fails the run goes on with an
\* empty history: with an empty history no issue gets the advisory and none
\* is resolved, the reconciled list is the list of the current issues, and
\* the run ends with the review created.
C28_FetchFailure ==
    [][/\ pc = "getPreviousReviews" => pc' = "getDiff"
       /\ (pc' = "getDiff" /\ historicalReviews' # getPreviousReviews(thread))
            => historicalReviews' = <<>>
       /\ (pc = "compare" /\ historicalReviews = <<>>)
            => /\ pc' = "filter"
               /\ Len(comments') = Len(originalComments)
               /\ \A i \in 1..Len(comments') :
                    /\ ~HasAdvisory(comments'[i].body)
                    /\ comments'[i].status # "resolved"
                    /\ comments'[i].path = originalComments[i].path
                    /\ comments'[i].line = originalComments[i].line
       /\ (pc = "createReview" /\ historicalReviews = <<>> /\ reviewCount' = 1
                /\ actionStatus' # "error")
            => thread' = thread \o
                    [i \in 1..Len(filteredComments) |->
                        ThreadComment(PublishedComment(filteredComments[i]), run)]
      ]_vars

\* the fetch failed in the second run although the pull request has comments
\* of the action, and the review of the run was created
C28_Witness ==
    /\ pc = "verdict"
    /\ run = 2
    /\ historicalReviews = <<>>
    /\ prevComments # <<>>
    /\ Len(thread) > Len(filteredComments)
    /\ getPreviousReviews(SubSeq(thread, 1, Len(thread) - Len(filteredComments))) # <<>>
    /\ comments # <<>>
    /\ reviewCount = 1

\* C29: no historical issue of a file is emitted as resolved in a run whose
\* model call for that file failed, and none at all in a run whose producers
\* all failed.
C29_FailureNeverResolves ==
    pc = "filter" =>
        /\ \A i \in ResolvedIdx :
                ~\E k \in 1..Len(producerLog) :
                    /\ producerLog[k].kind = "model"
                    /\ producerLog[k].failed
                    /\ producerLog[k].producer = comments[i].path
        /\ (\A k \in 1..Len(producerLog) : producerLog[k].failed) => ResolvedIdx = {}

\* C30: issues that get the same id have the same path, line and body.
C30_IdInjective ==
    pc = "filter" =>
        \A i, j \in 1..Len(originalComments) :
            comments[i].id = comments[j].id
                => SameIssue(originalComments[i], originalComments[j])

====
